---- MODULE Spec2Model ----
(***************************************************************************)
(* A model of codegen.py: the register namespace (Reg), the instruction    *)
(* catalog (Inst), Instruction.emit, the program builder (Codegen) and the *)
(* two sequence templates (TemplateInstruction).                           *)
(*                                                                         *)
(* Python values are tagged records: t is the Python type ("int", "str",   *)
(* "list") and n, s or l the value.  The result of a call is a record      *)
(* [r, ...]: r is "str" or "None" for a returned value, or the name of the *)
(* exception the call raised.  A formatted string is built as the f-string *)
(* builds it, from literal pieces and interpolated fields.                 *)
(***************************************************************************)
EXTENDS Integers, Sequences, FiniteSets, TLC

VARIABLES
  reg_call,      \* the register resolution being made (Reg.<name>, Reg.X(i), Reg.W(i))
  reg_res,       \* what that resolution returned or raised
  inst,          \* the Instruction whose emit() is called on its own
  emit_res,      \* what that emit() returned or raised
  instructions,  \* Codegen.instructions of the builder under construction
  out,           \* what the last Codegen.generate() returned or raised
  hist,          \* the last two calls made on the builder, oldest first
  tmpl_in,       \* the template call being made (print_str(text), print_sum(a, b))
  cg             \* Codegen.instructions of the program the template returned

vars == <<reg_call, reg_res, inst, emit_res, instructions, out, hist, tmpl_in, cg>>

-----------------------------------------------------------------------------
(* Python values *)

I(n) == [t |-> "int", n |-> n, s |-> "", l |-> <<>>]
S(s) == [t |-> "str", n |-> 0, s |-> s, l |-> <<>>]
L(l) == [t |-> "list", n |-> 0, s |-> "", l |-> l]

\* isinstance(x, int), isinstance(x, list)
IsInt(x) == x.t = "int"
IsList(x) == x.t = "list"

RECURSIVE JoinStr(_, _)
\* sep.join(strs)
JoinStr(strs, sep) ==
  IF strs = <<>> THEN ""
  ELSE IF Len(strs) = 1 THEN strs[1]
  ELSE strs[1] \o sep \o JoinStr(Tail(strs), sep)

RECURSIVE Fmt(_)
\* format(x) inside an f-string: str(x).  A str is itself, an int its decimal
\* text, a list the repr of its elements between brackets.
Fmt(x) ==
  CASE x.t = "str" -> x.s
    [] x.t = "int" -> ToString(x.n)
    [] x.t = "list" ->
         "[" \o JoinStr([i \in 1..Len(x.l) |->
                           IF x.l[i].t = "str" THEN "'" \o x.l[i].s \o "'"
                           ELSE Fmt(x.l[i])], ", ") \o "]"

\* The pieces of an f-string: literal text and interpolated fields.
Lit(s) == [k |-> "lit", s |-> s, x |-> S(s)]
Fld(x) == [k |-> "fld", s |-> Fmt(x), x |-> x]

\* The string an f-string evaluates to.
FStr(parts) == JoinStr([i \in 1..Len(parts) |-> parts[i].s], "")

-----------------------------------------------------------------------------
(* Register namespace: _RegMeta and Reg *)

\* A register name is the sequence of its characters.
special_names == {<<"S", "P">>, <<"L", "R">>, <<"F", "P">>,
                  <<"X", "Z", "R">>, <<"W", "Z", "R">>}

\* _RegMeta._special
special(name) ==
  CASE name = <<"S", "P">> -> "sp"
    [] name = <<"L", "R">> -> "lr"
    [] name = <<"F", "P">> -> "fp"
    [] name = <<"X", "Z", "R">> -> "xzr"
    [] name = <<"W", "Z", "R">> -> "wzr"

Digits == {"0", "1", "2", "3", "4", "5", "6", "7", "8", "9"}

DigitVal(c) ==
  CASE c = "0" -> 0 [] c = "1" -> 1 [] c = "2" -> 2 [] c = "3" -> 3
    [] c = "4" -> 4 [] c = "5" -> 5 [] c = "6" -> 6 [] c = "7" -> 7
    [] c = "8" -> 8 [] c = "9" -> 9

RECURSIVE LStrip(_)
LStrip(cs) == IF cs # <<>> /\ cs[1] = " " THEN LStrip(Tail(cs)) ELSE cs

RECURSIVE RStrip(_)
RStrip(cs) ==
  IF cs # <<>> /\ cs[Len(cs)] = " " THEN RStrip(SubSeq(cs, 1, Len(cs) - 1)) ELSE cs

RECURSIVE DigitsValue(_, _)
\* The value of a run of digits and underscores, most significant first.
DigitsValue(cs, acc) ==
  IF cs = <<>> THEN acc
  ELSE IF cs[1] = "_" THEN DigitsValue(Tail(cs), acc)
  ELSE DigitsValue(Tail(cs), 10 * acc + DigitVal(cs[1]))

\* Python's int(s) for a str s: surrounding whitespace is dropped, one sign may
\* lead, and the rest is decimal digits, single underscores allowed between
\* two digits.  ok = FALSE stands for ValueError.
ParseInt(cs) ==
  LET body == RStrip(LStrip(cs))
      signed == body # <<>> /\ body[1] \in {"-", "+"}
      ds == IF signed THEN Tail(body) ELSE body
      wellFormed ==
        /\ ds # <<>>
        /\ \A i \in 1..Len(ds) : ds[i] \in Digits \cup {"_"}
        /\ ds[1] # "_" /\ ds[Len(ds)] # "_"
        /\ \A i \in 1..(Len(ds) - 1) : ~(ds[i] = "_" /\ ds[i + 1] = "_")
  IN IF ~wellFormed THEN [ok |-> FALSE, n |-> 0]
     ELSE [ok |-> TRUE,
           n |-> IF signed /\ body[1] = "-" THEN 0 - DigitsValue(ds, 0)
                 ELSE DigitsValue(ds, 0)]

\* The branch of __getattr__ for one family: name.startswith(P), then
\* int(name[1:]) and the range test; fell = TRUE when the branch falls through.
family_branch(name, P, p) ==
  IF name # <<>> /\ name[1] = P
  THEN LET idx == ParseInt(Tail(name))
       IN IF idx.ok /\ 0 <= idx.n /\ idx.n < 30
          THEN [fell |-> FALSE, v |-> p \o ToString(idx.n)]
          ELSE [fell |-> TRUE, v |-> ""]
  ELSE [fell |-> TRUE, v |-> ""]

\* _RegMeta.__getattr__(cls, name)
RegMeta_getattr(name) ==
  IF name \in special_names THEN [r |-> "str", v |-> special(name)]
  ELSE LET bx == family_branch(name, "X", "x")
           bw == family_branch(name, "W", "w")
       IN IF ~bx.fell THEN [r |-> "str", v |-> bx.v]
          ELSE IF ~bw.fell THEN [r |-> "str", v |-> bw.v]
          ELSE [r |-> "AttributeError", v |-> ""]

\* The attribute lookup Reg.<name>: __getattr__ is called only when the normal
\* lookup finds nothing, and the class itself defines X and W (classmethods).
Reg_attr(name) ==
  IF name \in {<<"X">>, <<"W">>} THEN [r |-> "method", v |-> ""]
  ELSE RegMeta_getattr(name)

\* Reg.X(i)
Reg_X(i) == IF 0 <= i /\ i < 30 THEN [r |-> "str", v |-> "x" \o ToString(i)]
            ELSE [r |-> "None", v |-> ""]

\* Reg.W(i)
Reg_W(i) == IF 0 <= i /\ i < 30 THEN [r |-> "str", v |-> "w" \o ToString(i)]
            ELSE [r |-> "None", v |-> ""]

\* The registers the builder and the templates name (Reg.SP, Reg.X0, ...), each
\* the mnemonic Reg resolves the name to (RegConstantsResolve).
SP == S("sp")
X0 == S("x0")
X1 == S("x1")
X2 == S("x2")
X8 == S("x8")
X16 == S("x16")
W1 == S("w1")

RegConstantsResolve ==
  /\ Reg_attr(<<"S", "P">>) = [r |-> "str", v |-> SP.s]
  /\ Reg_attr(<<"X", "0">>) = [r |-> "str", v |-> X0.s]
  /\ Reg_attr(<<"X", "1">>) = [r |-> "str", v |-> X1.s]
  /\ Reg_attr(<<"X", "2">>) = [r |-> "str", v |-> X2.s]
  /\ Reg_attr(<<"X", "8">>) = [r |-> "str", v |-> X8.s]
  /\ Reg_attr(<<"X", "1", "6">>) = [r |-> "str", v |-> X16.s]
  /\ Reg_attr(<<"W", "1">>) = [r |-> "str", v |-> W1.s]

-----------------------------------------------------------------------------
(* Instruction catalog and Instruction.emit *)

\* The members of Inst, in declaration order.
Inst == {"MOV", "LDR", "STR", "STRB", "STRH", "ADR", "ADRP", "MOVZ", "MOVK",
         "MOVN", "ADD", "SUB", "MUL", "UDIV", "NEG", "INC", "AND", "ORR",
         "EOR", "MVN", "LSL", "LSR", "CMP", "TST", "CCMP", "NOP", "SVC", "RET"}

\* Instruction(op, args)
Instruction(op, args) == [op |-> op, args |-> args]

\* self.op.name.lower(), for the kinds whose rule formats it
lower(name) ==
  CASE name = "MOVZ" -> "movz" [] name = "MOVK" -> "movk"
    [] name = "STR" -> "str" [] name = "STRB" -> "strb" [] name = "STRH" -> "strh"
    [] name = "LSL" -> "lsl" [] name = "LSR" -> "lsr"

\* What a call returns or raises.
Returns(parts) == [r |-> "str", parts |-> parts]
ReturnsNone == [r |-> "None", parts |-> <<>>]
Raises(e) == [r |-> e, parts |-> <<>>]

\* The MOVK / MOVZ branch of emit.
emit_movzk(self) ==
  IF Len(self.args) = 2
  THEN Returns(<<Lit("\t "), Lit(lower(self.op)), Lit(" "), Fld(self.args[1]),
                 Lit(", "), Lit("#"), Fld(self.args[2])>>)
  ELSE IF Len(self.args) = 4 /\ self.args[3] \in {S("LSL"), S("LSR")}
  THEN LET dst == self.args[1]
           imm == self.args[2]
           shift_type == self.args[3]
           shift == self.args[4]
       IN IF /\ self.op = "MOVZ"
             /\ shift_type = S("LSL")
             /\ IsInt(shift) /\ shift.n \in {0, 16, 32, 48}
          THEN Returns(<<Lit("\t "), Lit(lower(self.op)), Lit(" "), Fld(dst),
                         Lit(", "), Lit("#"), Fld(imm), Lit(", "),
                         Lit(lower(shift_type.s)), Lit(" "), Lit("#"), Fld(shift)>>)
          ELSE Raises("AssertionError")
  ELSE Raises("ValueError")

\* The STR / STRB / STRH branch of emit.
emit_store(self) ==
  IF Len(self.args) # 2 THEN Raises("ValueError")
  ELSE LET src == self.args[1]
           addr == self.args[2]
       IN IF IsList(addr)
          THEN IF Len(addr.l) = 1
               THEN Returns(<<Lit("\t "), Lit(lower(self.op)), Lit(" "), Fld(src),
                              Lit(", "), Lit("["), Fld(addr.l[1]), Lit("]")>>)
               ELSE IF Len(self.args) = 2
               THEN IF Len(addr.l) # 2 THEN Raises("ValueError")
                    ELSE Returns(<<Lit("\t "), Lit(lower(self.op)), Lit(" "), Fld(src),
                                   Lit(", "), Lit("["), Fld(addr.l[1]), Lit(", "),
                                   Lit("#"), Fld(addr.l[2]), Lit("]")>>)
               ELSE Raises("ValueError")
          ELSE Raises("ValueError")

\* Instruction.emit(self).  A tuple assignment from self.args raises ValueError
\* when the lengths differ; self.args[0] raises IndexError on an empty list; a
\* kind no branch names falls off the end of the function, which returns None.
emit(self) ==
  CASE self.op = "MOV" ->
         IF Len(self.args) # 2 THEN Raises("ValueError")
         ELSE IF IsInt(self.args[2])
         THEN Returns(<<Lit("\t "), Lit("mov"), Lit(" "), Fld(self.args[1]),
                        Lit(", "), Lit("#"), Fld(self.args[2])>>)
         ELSE Returns(<<Lit("\t "), Lit("mov"), Lit(" "), Fld(self.args[1]),
                        Lit(", "), Fld(self.args[2])>>)
    [] self.op = "ADD" ->
         IF Len(self.args) # 3 THEN Raises("ValueError")
         ELSE Returns(<<Lit("\t "), Lit("add"), Lit(" "), Fld(self.args[1]),
                        Lit(", "), Fld(self.args[2]), Lit(", "), Fld(self.args[3])>>)
    [] self.op = "RET" -> Returns(<<Lit("\t "), Lit("ret")>>)
    [] self.op = "NOP" -> Returns(<<Lit("\t "), Lit("nop")>>)
    [] self.op \in {"MOVK", "MOVZ"} -> emit_movzk(self)
    [] self.op = "SUB" ->
         IF Len(self.args) # 2 THEN Raises("ValueError")
         ELSE Returns(<<Lit("\t "), Lit("sub"), Lit(" "), Fld(self.args[1]),
                        Lit(", "), Fld(self.args[1]), Lit(", "), Lit("#"),
                        Fld(self.args[2])>>)
    [] self.op = "SVC" ->
         IF Len(self.args) = 0 THEN Raises("IndexError")
         ELSE Returns(<<Lit("\t "), Lit("svc"), Lit(" "), Lit("#"), Fld(self.args[1])>>)
    [] self.op \in {"STR", "STRB", "STRH"} -> emit_store(self)
    [] OTHER -> ReturnsNone

-----------------------------------------------------------------------------
(* Program builder: Codegen *)

\* Codegen.alloc_size(n_size): (n_size + 15) & ~15 clears the four low bits of
\* n_size + 15, which is the multiple of 16 at or below it.
alloc_size(n_size) == ((n_size + 15) \div 16) * 16

\* Codegen.emit(inst): self.instructions.append(inst)
Codegen_emit(self, i) == Append(self, i)

\* Codegen.allocate_stack(n_size): the rounded size is computed, and the
\* instruction appended subtracts the literal 16.
allocate_stack(self, n_size) ==
  LET n == alloc_size(n_size)
  IN Append(self, Instruction("SUB", <<SP, I(16)>>))

\* Codegen.deallocate_stack(n_size)
deallocate_stack(self, n_size) ==
  LET n == alloc_size(n_size)
  IN Append(self, Instruction("ADD", <<SP, SP, I(n)>>))

\* Codegen.syscall_exit()
syscall_exit(self) ==
  self \o << Instruction("MOV", <<X16, I(1)>>),
             Instruction("MOV", <<X0, I(0)>>),
             Instruction("MOV", <<X8, I(33554432)>>),
             Instruction("ADD", <<X16, X16, X8>>),
             Instruction("SVC", <<I(0)>>) >>

\* Codegen.syscall_write(n_literal)
syscall_write(self, n_literal) ==
  self \o << Instruction("MOV", <<X0, I(1)>>),
             Instruction("MOV", <<X1, SP>>),
             Instruction("MOV", <<X2, I(n_literal)>>),
             Instruction("MOV", <<X16, I(4)>>),
             Instruction("MOV", <<X8, I(33554432)>>),
             Instruction("ADD", <<X16, X16, X8>>),
             Instruction("SVC", <<I(0)>>) >>

\* The first value of `lines` in generate.
header == << Returns(<<Lit(".section __TEXT,__text")>>),
             Returns(<<Lit(".global _main")>>),
             Returns(<<Lit("")>>),
             Returns(<<Lit("_main:")>>) >>

RECURSIVE generate_loop(_, _)
\* for instr in self.instructions: lines.append(instr.emit()).  An exception
\* raised by emit ends the loop and the call; None is appended like a string.
generate_loop(instrs, lines) ==
  IF instrs = <<>> THEN [r |-> "ok", lines |-> lines]
  ELSE LET e == emit(instrs[1])
       IN IF e.r \in {"str", "None"}
          THEN generate_loop(Tail(instrs), Append(lines, e))
          ELSE [r |-> e.r, lines |-> lines]

\* "\n".join(lines): TypeError when an item is not a str.
join_lines(lines) ==
  IF \E i \in 1..Len(lines) : lines[i].r # "str"
  THEN [r |-> "TypeError", s |-> ""]
  ELSE [r |-> "str", s |-> JoinStr([i \in 1..Len(lines) |-> FStr(lines[i].parts)], "\n")]

\* A faulty generate: the loop starts at the second instruction.
generate_skipping_first(self) ==
  LET loop == generate_loop(IF self = <<>> THEN self ELSE Tail(self), header)
      joined == join_lines(loop.lines)
  IN [self |-> self,
      ret |-> IF loop.r # "ok" THEN [r |-> loop.r, s |-> ""] ELSE joined,
      lines |-> loop.lines]

\* A faulty generate: the instructions are consumed as they are rendered.
generate_draining(self) ==
  LET loop == generate_loop(self, header)
      joined == join_lines(loop.lines)
  IN [self |-> <<>>,
      ret |-> IF loop.r # "ok" THEN [r |-> loop.r, s |-> ""] ELSE joined,
      lines |-> loop.lines]

\* Codegen.generate(): self is the instruction list when the call ends, ret
\* what the call returned or raised, lines the local list when it ended.
generate(self) ==
  LET loop == generate_loop(self, header)
      joined == join_lines(loop.lines)
  IN [self |-> self,
      ret |-> IF loop.r # "ok" THEN [r |-> loop.r, s |-> ""] ELSE joined,
      lines |-> loop.lines]

-----------------------------------------------------------------------------
(* Sequence templates: TemplateInstruction *)

\* ord(c), for the characters the model's texts use
ord(c) ==
  CASE c \in Digits -> 48 + DigitVal(c)
    [] c = "-" -> 45 [] c = " " -> 32 [] c = "A" -> 65
    [] c = "h" -> 104 [] c = "i" -> 105

DigitChar(d) ==
  CASE d = 0 -> "0" [] d = 1 -> "1" [] d = 2 -> "2" [] d = 3 -> "3" [] d = 4 -> "4"
    [] d = 5 -> "5" [] d = 6 -> "6" [] d = 7 -> "7" [] d = 8 -> "8" [] d = 9 -> "9"

RECURSIVE NatChars(_)
NatChars(n) == IF n < 10 THEN <<DigitChar(n)>>
               ELSE Append(NatChars(n \div 10), DigitChar(n % 10))

\* str(n) for an int n, as the sequence of its characters
str(n) == IF n < 0 THEN <<"-">> \o NatChars(0 - n) ELSE NatChars(n)

RECURSIVE print_sum_loop(_, _, _)
\* for idx, val in enumerate(c), from index idx on
print_sum_loop(self, c, idx) ==
  IF idx >= Len(c) THEN self
  ELSE print_sum_loop(
         Codegen_emit(
           Codegen_emit(self, Instruction("MOVZ", <<X1, I(ord(c[idx + 1])), S("LSL"), I(0)>>)),
           Instruction("STRB", <<W1, L(<<SP, I(idx)>>)>>)),
         c, idx + 1)

\* TemplateInstruction.print_sum(a, b): the instruction list of the Codegen returned
print_sum(a, b) ==
  LET c == str(a + b)
      cg0 == allocate_stack(<<>>, Len(c))
      cg1 == print_sum_loop(cg0, c, 0)
      cg2 == syscall_write(cg1, Len(c))
      cg3 == deallocate_stack(cg2, Len(c))
  IN syscall_exit(cg3)

RECURSIVE print_str_loop(_, _, _)
\* for idx, val in enumerate(text), from index idx on
print_str_loop(self, text, idx) ==
  IF idx >= Len(text) THEN self
  ELSE print_str_loop(
         Codegen_emit(
           Codegen_emit(self, Instruction("MOV", <<W1, I(ord(text[idx + 1]))>>)),
           Instruction("STRB", <<W1, L(<<SP, I(idx)>>)>>)),
         text, idx + 1)

\* A faulty print_str: the stack is never given back.
print_str_no_deallocation(text) ==
  LET n_literal == Len(text)
      cg0 == allocate_stack(<<>>, n_literal)
      cg1 == print_str_loop(cg0, text, 0)
      cg2 == syscall_write(cg1, n_literal)
  IN syscall_exit(cg2)

\* TemplateInstruction.print_str(text): the instruction list of the Codegen returned
print_str(text) ==
  LET n_literal == Len(text)
      cg0 == allocate_stack(<<>>, n_literal)
      cg1 == print_str_loop(cg0, text, 0)
      cg2 == syscall_write(cg1, n_literal)
      cg3 == deallocate_stack(cg2, n_literal)
  IN syscall_exit(cg3)

-----------------------------------------------------------------------------
(* Bounds and inputs *)

MaxSuffix == 3    \* characters after the first of a register name
MaxArgs == 4      \* operands of an Instruction emitted on its own
MaxCalls == 4     \* calls made on one builder
MaxTextLen == 17  \* characters of the text given to print_str

\* All sequences over A of length at most n.
SeqsUpTo(A, n) == UNION {[1..k -> A] : k \in 0..n}

NameChars == {"0", "1", "2", "3", "9", "-", "+", "_", " ", "a"}

Names ==
  {<<p>> \o sfx : p \in {"X", "W", "Q"}, sfx \in SeqsUpTo(NameChars, MaxSuffix)}
    \cup special_names \cup {<<"P", "C">>, <<"S", "P", "0">>}

RegCalls ==
  {[via |-> "attr", name |-> n, i |-> 0] : n \in Names}
    \cup {[via |-> v, name |-> <<>>, i |-> k] : v \in {"X", "W"}, k \in (0 - 2)..32}

Operands == {X1, I(5), S("LSL"), L(<<SP>>), L(<<SP, I(4)>>)}

ArgLists ==
  SeqsUpTo(Operands, MaxArgs)
    \cup {<<X1, I(5), k, a>> : k \in {S("LSL"), S("LSR"), S("ASR")},
                               a \in {I(0), I(16), I(32), I(48), I(7), I(64)}}
    \cup {<<W1, a>> : a \in {L(<<>>), L(<<SP, I(4), I(1)>>)}}

InstInputs == {Instruction(op, args) : op \in Inst, args \in ArgLists}

\* The instructions handed to Codegen.emit.
EmitInputs == { Instruction("MOV", <<X0, I(1)>>),
                Instruction("MOV", <<X1, X2>>),
                Instruction("RET", <<>>),
                Instruction("ADD", <<X0, X1>>),
                Instruction("LDR", <<X0, L(<<SP>>)>>) }

Sizes == {1, 17}

Chars == <<"h", "i", "A", " ">>

Texts ==
  {[i \in 1..n |-> Chars[(((i - 1) * p) % Len(Chars)) + 1]] :
     n \in 0..MaxTextLen, p \in 0..(Len(Chars) - 1)}

SumArgs == {0 - 120, 0 - 7, 0, 5, 38, 999, 123456}

TemplateCalls ==
  {[fn |-> "print_str", text |-> t, a |-> 0, b |-> 0] : t \in Texts}
    \cup {[fn |-> "print_sum", text |-> <<>>, a |-> a, b |-> b] :
            a \in SumArgs, b \in SumArgs}

-----------------------------------------------------------------------------
(* State machines *)

NoRegCall == [via |-> "none", name |-> <<>>, i |-> 0]
NoRegRes == [r |-> "not called", v |-> ""]
NoInst == Instruction("NOP", <<>>)
NoEmitRes == Raises("not called")
NoOut == [r |-> "not called", s |-> "", lines |-> <<>>]
NoTemplateCall == [fn |-> "none", text |-> <<>>, a |-> 0, b |-> 0]

RegIdle == reg_call = NoRegCall /\ reg_res = NoRegRes
EmitIdle == inst = NoInst /\ emit_res = NoEmitRes
CodegenIdle == instructions = <<>> /\ out = NoOut /\ hist = <<>>
TemplateIdle == tmpl_in = NoTemplateCall /\ cg = <<>>

(* Register resolution: one call, its input drawn at the start *)

InitReg == /\ reg_call \in RegCalls /\ reg_res = NoRegRes
           /\ EmitIdle /\ CodegenIdle /\ TemplateIdle

\* Reg.<name>
GetAttr ==
  /\ reg_res = NoRegRes /\ reg_call.via = "attr"
  /\ reg_res' = Reg_attr(reg_call.name)
  /\ UNCHANGED <<reg_call, inst, emit_res, instructions, out, hist, tmpl_in, cg>>

\* Reg.X(i)
CallX ==
  /\ reg_res = NoRegRes /\ reg_call.via = "X"
  /\ reg_res' = Reg_X(reg_call.i)
  /\ UNCHANGED <<reg_call, inst, emit_res, instructions, out, hist, tmpl_in, cg>>

\* Reg.W(i)
CallW ==
  /\ reg_res = NoRegRes /\ reg_call.via = "W"
  /\ reg_res' = Reg_W(reg_call.i)
  /\ UNCHANGED <<reg_call, inst, emit_res, instructions, out, hist, tmpl_in, cg>>

NextReg == GetAttr \/ CallX \/ CallW

SpecReg == InitReg /\ [][NextReg]_vars

(* Instruction.emit on its own: one call, its input drawn at the start *)

InitEmit == /\ inst \in InstInputs /\ emit_res = NoEmitRes
            /\ RegIdle /\ CodegenIdle /\ TemplateIdle

\* Instruction.emit()
CallEmit ==
  /\ emit_res = NoEmitRes
  /\ emit_res' = emit(inst)
  /\ UNCHANGED <<reg_call, reg_res, inst, instructions, out, hist, tmpl_in, cg>>

NextEmit == CallEmit

SpecEmit == InitEmit /\ [][NextEmit]_vars

(* The builder: any sequence of at most MaxCalls calls *)

Call(op, k, i) == [op |-> op, k |-> k, inst |-> i]

InitCodegen == RegIdle /\ EmitIdle /\ CodegenIdle /\ TemplateIdle

\* cg.emit(i)
Emit ==
  /\ Len(hist) < MaxCalls
  /\ \E i \in EmitInputs :
       /\ instructions' = Codegen_emit(instructions, i)
       /\ hist' = Append(hist, Call("emit", 0, i))
  /\ out' = NoOut
  /\ UNCHANGED <<reg_call, reg_res, inst, emit_res, tmpl_in, cg>>

\* cg.allocate_stack(k)
AllocateStack ==
  /\ Len(hist) < MaxCalls
  /\ \E k \in Sizes :
       /\ instructions' = allocate_stack(instructions, k)
       /\ hist' = Append(hist, Call("allocate_stack", k, NoInst))
  /\ out' = NoOut
  /\ UNCHANGED <<reg_call, reg_res, inst, emit_res, tmpl_in, cg>>

\* cg.deallocate_stack(k)
DeallocateStack ==
  /\ Len(hist) < MaxCalls
  /\ \E k \in Sizes :
       /\ instructions' = deallocate_stack(instructions, k)
       /\ hist' = Append(hist, Call("deallocate_stack", k, NoInst))
  /\ out' = NoOut
  /\ UNCHANGED <<reg_call, reg_res, inst, emit_res, tmpl_in, cg>>

\* cg.syscall_exit()
SyscallExit ==
  /\ Len(hist) < MaxCalls
  /\ instructions' = syscall_exit(instructions)
  /\ hist' = Append(hist, Call("syscall_exit", 0, NoInst))
  /\ out' = NoOut
  /\ UNCHANGED <<reg_call, reg_res, inst, emit_res, tmpl_in, cg>>

\* cg.syscall_write(n)
SyscallWrite ==
  /\ Len(hist) < MaxCalls
  /\ \E n \in {2} :
       /\ instructions' = syscall_write(instructions, n)
       /\ hist' = Append(hist, Call("syscall_write", n, NoInst))
  /\ out' = NoOut
  /\ UNCHANGED <<reg_call, reg_res, inst, emit_res, tmpl_in, cg>>

\* cg.generate()
Generate ==
  /\ Len(hist) < MaxCalls
  /\ LET g == generate(instructions)
     IN /\ instructions' = g.self
        /\ out' = [r |-> g.ret.r, s |-> g.ret.s, lines |-> g.lines]
  /\ hist' = Append(hist, Call("generate", 0, NoInst))
  /\ UNCHANGED <<reg_call, reg_res, inst, emit_res, tmpl_in, cg>>

NextCodegen ==
  \/ Emit \/ AllocateStack \/ DeallocateStack
  \/ SyscallExit \/ SyscallWrite \/ Generate

SpecCodegen == InitCodegen /\ [][NextCodegen]_vars

(* The templates: one call, its input drawn at the start *)

InitTemplate == /\ tmpl_in \in TemplateCalls /\ cg = <<>>
                /\ RegIdle /\ EmitIdle /\ CodegenIdle

\* TemplateInstruction.print_str(text)
PrintStr ==
  /\ cg = <<>> /\ tmpl_in.fn = "print_str"
  /\ cg' = print_str(tmpl_in.text)
  /\ UNCHANGED <<reg_call, reg_res, inst, emit_res, instructions, out, hist, tmpl_in>>

\* TemplateInstruction.print_sum(a, b)
PrintSum ==
  /\ cg = <<>> /\ tmpl_in.fn = "print_sum"
  /\ cg' = print_sum(tmpl_in.a, tmpl_in.b)
  /\ UNCHANGED <<reg_call, reg_res, inst, emit_res, instructions, out, hist, tmpl_in>>

NextTemplate == PrintStr \/ PrintSum

SpecTemplate == InitTemplate /\ [][NextTemplate]_vars

-----------------------------------------------------------------------------
(* Properties *)

LastIsGenerate == hist # <<>> /\ hist[Len(hist)].op = "generate"

\* A call that ended by raising.
Failed(res) == res.r \notin {"str", "None", "method", "not called"}

\* The canonical register mnemonics.
Mnemonics ==
  {"sp", "lr", "fp", "xzr", "wzr"}
    \cup {"x" \o ToString(n) : n \in 0..29} \cup {"w" \o ToString(n) : n \in 0..29}

\* C1: allocate_stack(k) followed immediately by deallocate_stack(k), for
\* k >= 1, appends a subtract-from-sp and an add-to-sp instruction whose
\* immediates are equal, so the pair leaves the stack pointer where it was.
C1_AllocDeallocBalanced ==
  \A j \in 1..(Len(hist) - 1) :
    ( /\ j + 1 = Len(hist)
      /\ hist[j].op = "allocate_stack" /\ hist[j + 1].op = "deallocate_stack"
      /\ hist[j].k = hist[j + 1].k /\ hist[j].k >= 1 )
    => LET n == Len(instructions)
           sub == instructions[n - 1]
           add == instructions[n]
       IN /\ sub.op = "SUB" /\ Len(sub.args) = 2 /\ sub.args[1] = SP
          /\ add.op = "ADD" /\ Len(add.args) = 3
          /\ add.args[1] = SP /\ add.args[2] = SP
          /\ IsInt(sub.args[2]) /\ IsInt(add.args[3])
          /\ sub.args[2].n = add.args[3].n

\* The mnemonic the register namespace is to give a call, "" when the call is
\* to fail: the five special names, X<n> and W<n> for 0 <= n < 30.
ExpectedRegister(call) ==
  IF call.via = "attr"
  THEN CASE call.name = <<"S", "P">> -> "sp"
         [] call.name = <<"L", "R">> -> "lr"
         [] call.name = <<"F", "P">> -> "fp"
         [] call.name = <<"X", "Z", "R">> -> "xzr"
         [] call.name = <<"W", "Z", "R">> -> "wzr"
         [] \E n \in 0..29 : call.name = <<"X">> \o str(n) ->
              "x" \o ToString(CHOOSE n \in 0..29 : call.name = <<"X">> \o str(n))
         [] \E n \in 0..29 : call.name = <<"W">> \o str(n) ->
              "w" \o ToString(CHOOSE n \in 0..29 : call.name = <<"W">> \o str(n))
         [] OTHER -> ""
  ELSE IF 0 <= call.i /\ call.i < 30
  THEN (IF call.via = "X" THEN "x" ELSE "w") \o ToString(call.i)
  ELSE ""

\* C2: a register resolution (Reg.<name>, Reg.X(i), Reg.W(i)) yields x<n> for
\* X<n> and w<n> for W<n> exactly when 0 <= n < 30, the fixed literals for SP,
\* LR, FP, XZR and WZR, and fails for every other index or name; it never
\* succeeds with a value that is not a canonical mnemonic.
C2_RegisterResolution ==
  reg_res # NoRegRes =>
    IF ExpectedRegister(reg_call) # ""
    THEN reg_res = [r |-> "str", v |-> ExpectedRegister(reg_call)]
    ELSE Failed(reg_res)

\* The operand shape each validated kind requires.
RequiredShape(i) ==
  CASE i.op = "MOV" -> Len(i.args) = 2
    [] i.op = "ADD" -> Len(i.args) = 3
    [] i.op = "SUB" -> Len(i.args) = 2
    [] i.op = "SVC" -> Len(i.args) = 1
    [] i.op \in {"STR", "STRB", "STRH"} ->
         /\ Len(i.args) = 2
         /\ IsList(i.args[2]) /\ Len(i.args[2].l) \in {1, 2}

\* C3: for MOV, ADD, SUB, SVC and STR/STRB/STRH, emit on an operand list whose
\* length or addressing shape differs from the required one fails with an
\* error and returns no text.
C3_ShapeValidated ==
  ( /\ emit_res # NoEmitRes
    /\ inst.op \in {"MOV", "ADD", "SUB", "SVC", "STR", "STRB", "STRH"}
    /\ ~RequiredShape(inst) )
  => Failed(emit_res)

\* C4: for MOVZ and MOVK with four operands, emit renders text only for MOVZ
\* with shift-kind LSL and a shift-amount in {0, 16, 32, 48}, the line then
\* ending ", #<imm>, lsl #<amount>"; every other four-operand combination
\* fails with the illegal-shift error (the assertion).
C4_ShiftedMove ==
  ( /\ emit_res # NoEmitRes
    /\ inst.op \in {"MOVZ", "MOVK"} /\ Len(inst.args) = 4 )
  => IF /\ inst.op = "MOVZ" /\ inst.args[3] = S("LSL")
        /\ inst.args[4] \in {I(0), I(16), I(32), I(48)}
     THEN /\ emit_res.r = "str"
          /\ Len(emit_res.parts) >= 8
          /\ FStr(SubSeq(emit_res.parts, Len(emit_res.parts) - 7, Len(emit_res.parts)))
               = ", #" \o Fmt(inst.args[2]) \o ", lsl #" \o Fmt(inst.args[4])
     ELSE emit_res.r = "AssertionError"

\* C5: in the listing generate() returns, every integer immediate operand of
\* every instruction line is rendered with a '#' before it, and every register
\* operand without one.
C5_ImmediatesHashed ==
  (LastIsGenerate /\ out.r = "str") =>
    \A l \in 1..Len(out.lines) :
      LET parts == out.lines[l].parts
      IN \A p \in 1..Len(parts) :
           parts[p].k = "fld" =>
             /\ IsInt(parts[p].x) => (p > 1 /\ parts[p - 1] = Lit("#"))
             /\ (parts[p].x.t = "str" /\ parts[p].x.s \in Mnemonics)
                  => ~(p > 1 /\ parts[p - 1] = Lit("#"))

\* The listing of a program: the four header lines, then the rendering of
\* each instruction, in order, one per line.
Listing(instrs) ==
  JoinStr(<<".section __TEXT,__text", ".global _main", "", "_main:">>
            \o [i \in 1..Len(instrs) |-> FStr(emit(instrs[i]).parts)], "\n")

AllRender(instrs) == \A i \in 1..Len(instrs) : emit(instrs[i]).r = "str"

\* The instructions handed to emit, in call order.
Emitted(calls) ==
  LET es == SelectSeq(calls, LAMBDA c : c.op = "emit")
  IN [i \in 1..Len(es) |-> es[i].inst]

\* C6, as claimed: after any sequence of emit and helper calls, generate()
\* returns the four header lines followed by one line per appended instruction,
\* the i-th the rendering of the i-th.
C6_GenerateAlwaysReturns ==
  LastIsGenerate => (out.r = "str" /\ out.s = Listing(instructions))

\* C6, amended: generate() returns text exactly when every appended
\* instruction renders to text, and raises otherwise; the text returned is the
\* four header lines followed by one line per appended instruction, the i-th
\* the rendering of the i-th appended, none dropped, duplicated or reordered.
C6_GenerateListing ==
  LastIsGenerate =>
    /\ (out.r = "str") <=> AllRender(instructions)
    /\ out.r # "str" => (Failed(out) /\ out.s = "")
    /\ out.r = "str" =>
         /\ out.s = Listing(instructions)
         /\ Len(out.lines) = 4 + Len(instructions)
    /\ (\A j \in 1..Len(hist) : hist[j].op \in {"emit", "generate"})
         => instructions = Emitted(hist)

C6_Witness ==
  /\ LastIsGenerate /\ out.r = "str"
  /\ Len(instructions) >= 2 /\ instructions[1] # instructions[2]

\* C7: generate() leaves the instruction list as it was, and a second call
\* with no append in between returns what the first returned.
C7_GeneratePure ==
  [][ (hist' # hist /\ hist'[Len(hist')].op = "generate")
        => /\ instructions' = instructions
           /\ LastIsGenerate => out' = out ]_vars

C7_Witness ==
  /\ Len(hist) >= 3 /\ LastIsGenerate
  /\ hist[Len(hist) - 1].op = "generate"
  /\ instructions # <<>> /\ out.r = "str"

\* The instructions of one write syscall of n bytes, and of the exit syscall.
WriteSequence(n) ==
  << Instruction("MOV", <<S("x0"), I(1)>>),
     Instruction("MOV", <<S("x1"), S("sp")>>),
     Instruction("MOV", <<S("x2"), I(n)>>),
     Instruction("MOV", <<S("x16"), I(4)>>),
     Instruction("MOV", <<S("x8"), I(33554432)>>),
     Instruction("ADD", <<S("x16"), S("x16"), S("x8")>>),
     Instruction("SVC", <<I(0)>>) >>

ExitSequence ==
  << Instruction("MOV", <<S("x16"), I(1)>>),
     Instruction("MOV", <<S("x0"), I(0)>>),
     Instruction("MOV", <<S("x8"), I(33554432)>>),
     Instruction("ADD", <<S("x16"), S("x16"), S("x8")>>),
     Instruction("SVC", <<I(0)>>) >>

IsAllocation(i) ==
  i.op = "SUB" /\ Len(i.args) = 2 /\ i.args[1] = S("sp") /\ IsInt(i.args[2])

IsDeallocation(i) ==
  /\ i.op = "ADD" /\ Len(i.args) = 3
  /\ i.args[1] = S("sp") /\ i.args[2] = S("sp") /\ IsInt(i.args[3])

Count(seq, P(_)) == Cardinality({i \in 1..Len(seq) : P(seq[i])})

IsStore(i) == i.op \in {"STR", "STRB", "STRH"}
IsSupervisorCall(i) == i.op = "SVC"

\* C8: for a text of n >= 1 characters, print_str returns, in this order: one
\* stack allocation, n (move, byte-store) pairs, the i-th moving the code of
\* character i into w1 and storing w1 at [sp, #i], one write syscall sequence
\* of length n, one stack deallocation, and the exit syscall sequence last;
\* no other store, allocation, deallocation or supervisor call.
C8_PrintStrShape ==
  (tmpl_in.fn = "print_str" /\ cg # <<>> /\ Len(tmpl_in.text) >= 1) =>
    LET n == Len(tmpl_in.text)
    IN /\ Len(cg) = 2 * n + 14
       /\ IsAllocation(cg[1])
       /\ \A i \in 0..(n - 1) :
            /\ cg[2 + 2 * i] = Instruction("MOV", <<S("w1"), I(ord(tmpl_in.text[i + 1]))>>)
            /\ cg[3 + 2 * i] = Instruction("STRB", <<S("w1"), L(<<S("sp"), I(i)>>)>>)
       /\ SubSeq(cg, 2 * n + 2, 2 * n + 8) = WriteSequence(n)
       /\ IsDeallocation(cg[2 * n + 9])
       /\ SubSeq(cg, 2 * n + 10, 2 * n + 14) = ExitSequence
       /\ Count(cg, IsStore) = n
       /\ Count(cg, IsAllocation) = 1
       /\ Count(cg, IsDeallocation) = 1
       /\ Count(cg, IsSupervisorCall) = 2

C8_Witness ==
  tmpl_in.fn = "print_str" /\ tmpl_in.text = <<"h", "i">> /\ cg # <<>>

\* The kinds of the catalog with no emission rule.
NoRuleKinds ==
  {"LDR", "ADR", "ADRP", "MOVN", "MUL", "UDIV", "NEG", "INC", "AND", "ORR",
   "EOR", "MVN", "LSL", "LSR", "CMP", "TST", "CCMP"}

\* C9: emit on an Instruction of a kind with no emission rule fails with the
\* malformed-operands error, whatever the operands; it never returns a value.
C9_NoRuleFails ==
  (emit_res # NoEmitRes /\ inst.op \in NoRuleKinds) => emit_res.r = "ValueError"

\* C10: in the program a template returns, every byte-store targets
\* [sp, #idx] with 0 <= idx < the bytes its stack allocation subtracted from
\* sp, and the length given to the write syscall is at most that size.
C10_StoresWithinAllocation ==
  cg # <<>> =>
    /\ IsAllocation(cg[1])
    /\ LET allocated == cg[1].args[2].n
       IN \A i \in 2..Len(cg) :
            /\ cg[i].op = "STRB" =>
                 (0 <= cg[i].args[2].l[2].n /\ cg[i].args[2].l[2].n < allocated)
            /\ (cg[i].op = "MOV" /\ cg[i].args[1] = S("x2")) =>
                 cg[i].args[2].n <= allocated

====
